---- MODULE Spec2Model ----
(***************************************************************************)
(* The preview server of src/preview_server.py: a subprocess that reads a  *)
(* story from the first line of stdin, builds one BardEngine, writes a     *)
(* ready signal and then answers one JSON command per input line.          *)
(*                                                                         *)
(* JSON values are written as strings: a JSON string is itself ("p1", ""), *)
(* any other JSON value carries a leading '#' ("#null", "#0", "#false"),   *)
(* and "#absent" marks a key the object does not have.  The text of an     *)
(* exception (the "message" key of an error record) is opaque and is left  *)
(* out of the records.                                                     *)
(***************************************************************************)
EXTENDS Integers, Sequences, FiniteSets, TLC

\* Number of command lines the caller delivers after the story line.
MaxLines == 2

Absent == "#absent"
None == "#null"

Keys == {"a", "b"}
Vals == {1, 2}
\* Python dicts over Keys: functions whose domain is the set of keys present.
Mappings == UNION {[D -> Vals] : D \in SUBSET Keys}
EmptyMapping == [k \in {} |-> 0]

\* The passages of the story the engine was built from.
Known == {"p1", "p2"}

(***************************************************************************)
(* Input lines.                                                            *)
(***************************************************************************)
\* The "state" member of a command: absent, a JSON object, or another JSON
\* value.  "pairs" is an array of [key, value] pairs, "partial" such an array
\* followed by an element that is no pair, "null" the JSON null.
StateField(kind, m) == [kind |-> kind, m |-> m]
NoStateField == StateField("absent", EmptyMapping)
\* The overlays the caller sends: they set keys to 2.
Overlays == {m \in Mappings : \A k \in DOMAIN m : m[k] = 2}
OneKey == {m \in Overlays : DOMAIN m = {"a"}}
StateFields ==
    {NoStateField, StateField("null", EmptyMapping)}
        \cup {StateField("map", m) : m \in Overlays}
        \cup {StateField("pairs", m) : m \in OneKey}
        \cup {StateField("partial", m) : m \in OneKey}
FewStateFields == {NoStateField} \cup {StateField("map", m) : m \in OneKey}

Line(kind, type, passage, index, st) ==
    [kind |-> kind, type |-> type, passage |-> passage, index |-> index, state |-> st]
NoLine == Line("none", Absent, Absent, Absent, NoStateField)

BadJsonLines == {Line("badjson", Absent, Absent, Absent, NoStateField)}
NonObjectLines == {Line("nonobject", Absent, Absent, Absent, NoStateField)}
PreviewLines ==
    {Line("object", "preview", p, Absent, st) :
        p \in {Absent, "", "#0"},
        st \in FewStateFields \cup {StateField("null", EmptyMapping)}}
        \cup {Line("object", "preview", p, Absent, st) :
                p \in {"p1", "p2", "zz"}, st \in StateFields}
ChoiceLines ==
    {Line("object", "choice", Absent, i, st) :
        i \in {Absent, None, "#0", "#1"}, st \in FewStateFields}
CurrentLines == {Line("object", "current", Absent, Absent, st) : st \in FewStateFields}
ExitLines == {Line("object", "exit", Absent, Absent, st) : st \in FewStateFields}
OtherLines ==
    {Line("object", t, Absent, Absent, st) : t \in {"foo", Absent}, st \in FewStateFields}
ObjectLines == PreviewLines \cup ChoiceLines \cup CurrentLines \cup ExitLines \cup OtherLines

(***************************************************************************)
(* Python helpers used by main.                                            *)
(***************************************************************************)
\* command.get(key): the member's value, None when the key is missing.
Get(command, key) == IF command[key] = Absent THEN None ELSE command[key]

\* Variant: only None counts as missing (`if passage_id is None`).
FalsyAsNone(v) == v = None

\* `not v` for the JSON values that occur.
Falsy(v) == v \in {None, "", "#0", "#false"}

\* Variant: a truth test instead of the identity test (`if not choice_index`).
IsNoneAsFalsy(v) == Falsy(v)

\* `v is None`.
IsNone(v) == v = None

\* Variant: a null state counts as missing (`command.get("state") or {}`).
GetStateOrEmpty(command) ==
    IF command.state.kind \in {"absent", "null"}
    THEN StateField("map", EmptyMapping) ELSE command.state

\* command.get("state", {}): the default only replaces a missing key.
GetState(command) ==
    IF command.state.kind = "absent" THEN StateField("map", EmptyMapping) ELSE command.state

\* Variant: the overlay replaces the session state (`engine.state = user_state`).
MergeReplace(s, m) == m

\* Variant: only keys the session state already has are set.
MergeExistingOnly(s, m) ==
    [k \in DOMAIN s |-> IF k \in DOMAIN m THEN m[k] ELSE s[k]]

\* dict.update with a mapping: every key of m is set, the rest is kept.
Merge(s, m) ==
    [k \in DOMAIN s \cup DOMAIN m |-> IF k \in DOMAIN m THEN m[k] ELSE s[k]]

\* engine.state.update(user_state): a mapping or a sequence of pairs is
\* applied; a sequence with a bad element is applied up to that element and
\* then raises TypeError; a value that is no iterable raises at once.
Update(s, user_state) ==
    CASE user_state.kind \in {"map", "pairs"} ->
            [state |-> Merge(s, user_state.m), raised |-> FALSE]
      [] user_state.kind = "partial" ->
            [state |-> Merge(s, user_state.m), raised |-> TRUE]
      [] OTHER -> [state |-> s, raised |-> TRUE]

(***************************************************************************)
(* Records written to stdout.                                              *)
(***************************************************************************)
ErrorRecord(name) == [error |-> name]
\* Variant: the record does not carry the type.
UnknownTypeRecordBare(type) == [error |-> "Unknown command type"]

UnknownTypeRecord(type) == [error |-> "Unknown command type", type |-> type]
ReadyRecord == [status |-> "ready"]

Output(content, choices, passage_id) ==
    [content |-> content, choices |-> choices, passage_id |-> passage_id]

\* Variant: has_choices tests that the list exists (`output.choices is not None`).
serialize_outputNotNone(output) ==
    [content |-> output.content,
     choices |-> output.choices,
     passage_id |-> output.passage_id,
     has_choices |-> TRUE]

serialize_output(output) ==
    [content |-> output.content,
     choices |-> output.choices,
     passage_id |-> output.passage_id,
     has_choices |-> Len(output.choices) > 0]

(***************************************************************************)
(* The engine (bardic.runtime.engine.BardEngine), an external collaborator:*)
(* every call either returns an Output or raises, and while it runs the    *)
(* story's code may assign session variables.                              *)
(***************************************************************************)
Outputs == {Output("one", << >>, "p1"), Output("two", <<"x", "y">>, "p2")}
NoOutput == Output("", << >>, "")
EngineResult(ok, output, st) == [ok |-> ok, output |-> output, state |-> st]
\* What the story's code may leave of session state s: here it may set b to 1.
EngineEffects(s) == {s, Merge(s, [b |-> 1])}

GotoResults(passage_id, s) ==
    {EngineResult(FALSE, NoOutput, s2) : s2 \in EngineEffects(s)}
        \cup IF passage_id \in Known
             THEN {EngineResult(TRUE, o, s2) : o \in Outputs, s2 \in EngineEffects(s)}
             ELSE {}
ChooseResults(index, s) ==
    {EngineResult(FALSE, NoOutput, s2) : s2 \in EngineEffects(s)}
        \cup {EngineResult(TRUE, o, s2) : o \in Outputs, s2 \in EngineEffects(s)}
CurrentResults(current, s) ==
    {EngineResult(FALSE, NoOutput, s)}
        \cup {EngineResult(TRUE, o, s) : o \in {x \in Outputs : x.passage_id = current}}

\* The session state a new engine starts with (the story's initial values).
InitialStates == {EmptyMapping, [a |-> 1, b |-> 1]}

\* A call of an engine method: the n-th command line made it, with engine.state
\* being s when it was made; it returned r.output (ok) or raised, and the
\* engine left engine.state as r.state.
Call(n, op, arg, s, r) ==
    [n |-> n, op |-> op, arg |-> arg, state |-> s,
     ok |-> r.ok, output |-> r.output, left |-> r.state]
NoCall == Call(0, "none", Absent, EmptyMapping, EngineResult(TRUE, NoOutput, EmptyMapping))

(***************************************************************************)
(* Exception handlers of main.                                             *)
(***************************************************************************)
\* Variant: a bare `except:` that catches SystemExit too.
IsExceptionBare(exc) == TRUE

\* `except Exception` does not catch SystemExit, which sys.exit raises.
IsException(exc) == exc # "SystemExit"

\* Variant: the outermost handler exits without a report.
OuterExceptSilent(exc, o) == o

\* The outermost handler: report and exit 1.
OuterExcept(exc, o) ==
    IF IsException(exc) THEN Append(o, ErrorRecord("Fatal error")) ELSE o

\* sys.exit(1) after a startup error record was printed.
PrintAndExit(o, name) == OuterExcept("SystemExit", Append(o, ErrorRecord(name)))

\* Variant: the handlers in the other order, `except Exception` first.
LoopBodyExceptReordered(exc) == ErrorRecord("Unexpected error")

\* The handlers of the loop body's try statement.
LoopBodyExcept(exc) ==
    IF exc = "JSONDecodeError" THEN ErrorRecord("Invalid JSON")
    ELSE ErrorRecord("Unexpected error")

\* Variant: no try statement around the engine call, so that its exception
\* reaches the handlers of the loop body.
EngineReplyUncaught(r, name) ==
    IF r.ok THEN serialize_output(r.output) ELSE ErrorRecord("Unexpected error")

\* Variant: the handler of a failed engine.goto restores the session state
\* the command found.
StateAfterGotoRestoring(before, r) == IF r.ok THEN r.state ELSE before

\* engine.state after the try statement around engine.goto, before being the
\* session state the preview command found: neither branch assigns it, so
\* it is what the engine left.
StateAfterGoto(before, r) == r.state

\* The try statement around an engine call and the serialization of its result.
EngineReply(r, name) ==
    IF r.ok THEN serialize_output(r.output) ELSE ErrorRecord(name)

(***************************************************************************)
(* State.                                                                  *)
(***************************************************************************)
VARIABLES
    pc,        \* "import", "start", "loop" or "done": where the process is
    out,       \* the lines written to stdout, in order
    exitCode,  \* the exit status, -1 while the process runs
    how,       \* how the process ended, "running" while it runs
    engines,   \* number of BardEngine instances constructed
    state,     \* engine.state, the session state
    current,   \* the engine's current passage
    nread,     \* number of command lines read by the loop
    cmd,       \* the command line read last
    ncalls,    \* number of calls of goto, choose and current
    lastCall   \* the last such call

vars == <<pc, out, exitCode, how, engines, state, current, nread, cmd, ncalls, lastCall>>
engineVars == <<engines, state, current, ncalls, lastCall>>

Init ==
    /\ pc = "import"
    /\ out = << >>
    /\ exitCode = -1
    /\ how = "running"
    /\ engines = 0
    /\ state = EmptyMapping
    /\ current = ""
    /\ nread = 0
    /\ cmd = NoLine
    /\ ncalls = 0
    /\ lastCall = NoCall

\* The process ends with the given status.
Terminate(code, reason) ==
    /\ pc' = "done"
    /\ exitCode' = code
    /\ how' = reason

\* Variant: sys.exit() without a status.
SysExit0(reason) == Terminate(0, reason)

\* sys.exit(1).
SysExit1(reason) == Terminate(1, reason)

\* Variant: a farewell line is printed when the loop is left.
LoopEndsPrinting(reason) ==
    /\ Terminate(0, reason)
    /\ out' = Append(out, [status |-> "exited"])

\* The loop is left (break, or readline returned ""): nothing more is
\* printed, main returns and the interpreter exits with status 0.
LoopEnds(reason) ==
    /\ Terminate(0, reason)
    /\ out' = out

(***************************************************************************)
(* Startup.                                                                *)
(***************************************************************************)
ImportFails ==
    /\ pc = "import"
    /\ out' = Append(out, ErrorRecord("Bardic not installed"))
    /\ SysExit1("import")
    /\ UNCHANGED <<engineVars, nread, cmd>>

ImportSucceeds ==
    /\ pc = "import"
    /\ pc' = "start"
    /\ UNCHANGED <<out, exitCode, how, engineVars, nread, cmd>>

NoStory ==
    /\ pc = "start"
    /\ out' = PrintAndExit(out, "No story data provided")
    /\ SysExit1("nostory")
    /\ UNCHANGED <<engineVars, nread, cmd>>

InvalidStory ==
    /\ pc = "start"
    /\ out' = PrintAndExit(out, "Invalid story JSON")
    /\ SysExit1("badstory")
    /\ UNCHANGED <<engineVars, nread, cmd>>

EngineInitFails ==
    /\ pc = "start"
    /\ out' = PrintAndExit(out, "Engine initialization failed")
    /\ SysExit1("initfail")
    /\ UNCHANGED <<engineVars, nread, cmd>>

\* The story line cannot be read (stdin is not valid text) or json.loads
\* raises an exception other than JSONDecodeError.
StartupFatal ==
    /\ pc = "start"
    /\ \E exc \in {"UnicodeDecodeError", "RecursionError"} :
            out' = OuterExcept(exc, out)
    /\ SysExit1("fatal")
    /\ UNCHANGED <<engineVars, nread, cmd>>

\* Variant: the ready signal is not written.
SendReadyOmitted(o) == o

\* The ready signal, written once the engine is built.
SendReady(o) == Append(o, ReadyRecord)

StartupSucceeds ==
    /\ pc = "start"
    /\ engines' = engines + 1
    /\ state' \in InitialStates
    /\ current' = "p1"
    /\ out' = SendReady(out)
    /\ pc' = "loop"
    /\ UNCHANGED <<exitCode, how, nread, cmd, ncalls, lastCall>>

(***************************************************************************)
(* The command loop: each action reads one line and handles it to the end. *)
(***************************************************************************)
\* readline returned a line: the loop body runs on it.
Reads(line) ==
    /\ pc = "loop"
    /\ nread < MaxLines
    /\ nread' = nread + 1
    /\ cmd' = line

\* Variant: a log line is printed to stdout before the response.
AnswerWithLog(rec) ==
    /\ out' = Append(Append(out, [log |-> "handled"]), rec)
    /\ UNCHANGED <<pc, exitCode, how>>

\* print(json.dumps(rec), flush=True), after which the loop goes on.
Answer(rec) ==
    /\ out' = Append(out, rec)
    /\ UNCHANGED <<pc, exitCode, how>>

\* A call of an engine method with result r, made with session state s.
Calls(op, arg, s, r) ==
    /\ ncalls' = ncalls + 1
    /\ lastCall' = Call(nread + 1, op, arg, s, r)

\* readline returned "": the loop ends and main returns.
EndOfInput ==
    /\ pc = "loop"
    /\ LoopEnds("eof")
    /\ UNCHANGED <<engineVars, nread, cmd>>

\* readline raises (stdin is not valid text): only the outermost handler
\* is around it.
LoopFatal ==
    /\ pc = "loop"
    /\ out' = OuterExcept("UnicodeDecodeError", out)
    /\ SysExit1("fatal")
    /\ UNCHANGED <<engineVars, nread, cmd>>

\* json.loads raises JSONDecodeError.
InvalidJson ==
    \E line \in BadJsonLines :
        /\ Reads(line)
        /\ Answer(LoopBodyExcept("JSONDecodeError"))
        /\ UNCHANGED engineVars

\* The line is JSON but no object: command.get raises AttributeError.
NotAnObject ==
    \E line \in NonObjectLines :
        /\ Reads(line)
        /\ Answer(LoopBodyExcept("AttributeError"))
        /\ UNCHANGED engineVars

\* Variant: `break` instead of `continue` after the error record.
PreviewMissingPassageBreaks ==
    \E line \in PreviewLines :
        /\ Get(line, "type") = "preview"
        /\ Falsy(Get(line, "passage"))
        /\ Reads(line)
        /\ out' = Append(out, ErrorRecord("Missing passage ID"))
        /\ Terminate(0, "exit")
        /\ UNCHANGED engineVars

PreviewMissingPassage ==
    \E line \in PreviewLines :
        /\ Get(line, "type") = "preview"
        /\ Falsy(Get(line, "passage"))
        /\ Reads(line)
        /\ Answer(ErrorRecord("Missing passage ID"))
        /\ UNCHANGED engineVars

\* engine.state.update raises: no engine method is called.
PreviewMergeFails ==
    \E line \in PreviewLines :
        LET u == Update(state, GetState(line)) IN
        /\ Get(line, "type") = "preview"
        /\ ~Falsy(Get(line, "passage"))
        /\ u.raised
        /\ Reads(line)
        /\ state' = u.state
        /\ Answer(LoopBodyExcept("TypeError"))
        /\ UNCHANGED <<engines, current, ncalls, lastCall>>

PreviewGoto ==
    \E line \in PreviewLines :
        LET passage_id == Get(line, "passage")
            u == Update(state, GetState(line)) IN
        /\ Get(line, "type") = "preview"
        /\ ~Falsy(passage_id)
        /\ ~u.raised
        /\ Reads(line)
        /\ \E r \in GotoResults(passage_id, u.state) :
            /\ Calls("goto", passage_id, u.state, r)
            /\ state' = StateAfterGoto(state, r)
            /\ current' = IF r.ok THEN r.output.passage_id ELSE current
            /\ Answer(EngineReply(r, "Engine error"))
        /\ UNCHANGED engines

ChoiceMissingIndex ==
    \E line \in ChoiceLines :
        /\ Get(line, "type") = "choice"
        /\ IsNone(Get(line, "index"))
        /\ Reads(line)
        /\ Answer(ErrorRecord("Missing choice index"))
        /\ UNCHANGED engineVars

ChoiceChoose ==
    \E line \in ChoiceLines :
        LET choice_index == Get(line, "index") IN
        /\ Get(line, "type") = "choice"
        /\ ~IsNone(choice_index)
        /\ Reads(line)
        /\ \E r \in ChooseResults(choice_index, state) :
            /\ Calls("choose", choice_index, state, r)
            /\ state' = r.state
            /\ current' = IF r.ok THEN r.output.passage_id ELSE current
            /\ Answer(EngineReply(r, "Choice error"))
        /\ UNCHANGED engines

\* Variant: the current branch merges the command's state like the preview
\* branch does.
CurrentCmdMerging ==
    \E line \in CurrentLines :
        LET u == Update(state, GetState(line)) IN
        /\ Get(line, "type") = "current"
        /\ Reads(line)
        /\ \E r \in CurrentResults(current, u.state) :
            /\ Calls("current", Absent, u.state, r)
            /\ state' = r.state
            /\ Answer(EngineReply(r, "Engine error"))
        /\ UNCHANGED <<engines, current>>

CurrentCmd ==
    \E line \in CurrentLines :
        /\ Get(line, "type") = "current"
        /\ Reads(line)
        /\ \E r \in CurrentResults(current, state) :
            /\ Calls("current", Absent, state, r)
            /\ state' = r.state
            /\ Answer(EngineReply(r, "Engine error"))
        /\ UNCHANGED <<engines, current>>

\* break: nothing is printed, main returns.
ExitCmd ==
    \E line \in ExitLines :
        /\ Get(line, "type") = "exit"
        /\ Reads(line)
        /\ LoopEnds("exit")
        /\ UNCHANGED engineVars

UnknownCmd ==
    \E line \in OtherLines :
        /\ Get(line, "type") \notin {"preview", "choice", "current", "exit"}
        /\ Reads(line)
        /\ Answer(UnknownTypeRecord(Get(line, "type")))
        /\ UNCHANGED engineVars

Next ==
    \/ ImportFails
    \/ ImportSucceeds
    \/ NoStory
    \/ InvalidStory
    \/ EngineInitFails
    \/ StartupFatal
    \/ StartupSucceeds
    \/ EndOfInput
    \/ LoopFatal
    \/ InvalidJson
    \/ NotAnObject
    \/ PreviewMissingPassage
    \/ PreviewMergeFails
    \/ PreviewGoto
    \/ ChoiceMissingIndex
    \/ ChoiceChoose
    \/ CurrentCmd
    \/ ExitCmd
    \/ UnknownCmd

Spec == Init /\ [][Next]_vars

(***************************************************************************)
(* Properties.                                                             *)
(***************************************************************************)
\* The two shapes of a response.
IsError(rec) == "error" \in DOMAIN rec
IsSuccess(rec) == "has_choices" \in DOMAIN rec

\* The step read a command line.
ReadsLine == nread' = nread + 1

\* The step called an engine method.
CallsEngine == ncalls' = ncalls + 1

\* The caller can send one more line and has not ended the session (by an
\* exit command, the end of input or unreadable input).
MoreInput == how = "running" /\ nread < MaxLines

\* The process is in the loop and answers a line that is sent.
Listening == pc = "loop" /\ exitCode = -1 /\ ENABLED CurrentCmd /\ ENABLED UnknownCmd

\* No step is taken once the process has ended.
Halted == [][pc # "done"]_vars

C1_FailedCallStep ==
    (CallsEngine /\ ~lastCall'.ok) =>
        /\ ReadsLine
        /\ out' = Append(out, ErrorRecord(IF lastCall'.op = "choose"
                                          THEN "Choice error" ELSE "Engine error"))
        /\ pc' = "loop"
        /\ exitCode' = -1
\* C1: when engine.goto, engine.choose or engine.current raises, the step
\* writes exactly one record, 'Choice error' for choose and 'Engine error'
\* for goto and current, and the process stays in the loop, where the next
\* line is read and answered.
C1_EngineFailureIsolated ==
    /\ [][C1_FailedCallStep]_vars
    /\ []((lastCall.n = nread /\ ~lastCall.ok /\ MoreInput) => Listening)
C1_Witness ==
    /\ nread = 2
    /\ lastCall.n = 1
    /\ ~lastCall.ok
    /\ out = <<ReadyRecord, ErrorRecord("Choice error"),
               UnknownTypeRecord("foo")>>

C2_BadJsonStep ==
    (ReadsLine /\ cmd'.kind = "badjson") =>
        /\ out' = Append(out, ErrorRecord("Invalid JSON"))
        /\ pc' = "loop"
        /\ exitCode' = -1
        /\ UNCHANGED engineVars
\* C2: a line that json.loads rejects yields exactly one 'Invalid JSON'
\* record; the process stays in the loop and nothing of the engine (its
\* session state, its current passage, its call log) changes, so the next
\* command meets the engine it would have met without the bad line.
C2_InvalidJsonIsolated ==
    /\ [][C2_BadJsonStep]_vars
    /\ []((cmd.kind = "badjson" /\ MoreInput) => (Listening /\ ENABLED PreviewGoto))
C2_Witness ==
    /\ nread = 2
    /\ Len(out) = 3
    /\ out[2] = ErrorRecord("Invalid JSON")
    /\ IsSuccess(out[3])
    /\ cmd.type = "current"

IsExitCommand(line) == line.kind = "object" /\ line.type = "exit"
C3_ReadStep ==
    ReadsLine =>
        IF IsExitCommand(cmd')
        THEN out' = out
        ELSE Len(out') = Len(out) + 1 /\ SubSeq(out', 1, Len(out)) = out
\* C3: every command line read other than an exit command appends exactly
\* one line to the output, in the step that reads it (so before the next
\* line is read); an exit command appends none; while the loop runs the
\* output holds the ready signal and one response per line read.
C3_OneResponsePerCommand ==
    /\ [][C3_ReadStep]_vars
    /\ [](pc = "loop" => Len(out) = nread + 1)
    /\ [](how = "exit" => Len(out) = nread)
C3_Witness ==
    /\ pc = "loop"
    /\ nread = 2
    /\ Len(out) = 3
    /\ IsError(out[2])
    /\ IsSuccess(out[3])

ReadyAt == {k \in 1..Len(out) : out[k] = ReadyRecord}
\* C4: once the engine is built the first line of the output is the ready
\* signal and no other line is one; as long as no engine is built (startup
\* has not succeeded, or has failed) the output holds no ready signal, no
\* command line has been read and no engine method has been called.
C4_ReadyOnceAfterStartup ==
    /\ engines = 1 => (ReadyAt = {1} /\ pc \in {"loop", "done"})
    /\ engines = 0 => (ReadyAt = {} /\ nread = 0 /\ ncalls = 0 /\ pc # "loop")
    /\ engines \in {0, 1}
    /\ how \in {"import", "nostory", "badstory", "initfail"} => engines = 0
C4_Witness ==
    /\ engines = 1
    /\ nread = 2
    /\ Len(out) = 3
    /\ out[1] = ReadyRecord
    /\ IsSuccess(out[2])
    /\ IsError(out[3])

StartupFailureRecord ==
    [nostory |-> ErrorRecord("No story data provided"),
     badstory |-> ErrorRecord("Invalid story JSON"),
     initfail |-> ErrorRecord("Engine initialization failed")]
C5_StartupFailureState ==
    how \in DOMAIN StartupFailureRecord =>
        /\ out = <<StartupFailureRecord[how]>>
        /\ pc = "done"
        /\ exitCode = 1
        /\ engines = 0
        /\ nread = 0
        /\ ncalls = 0
\* C5: a startup failure (no story line, a story line that is no JSON, the
\* engine constructor raising) leaves its own error record as the only
\* line of the output and ends the process with status 1, with no engine
\* built and no command line read; nothing happens after the process ended.
C5_StartupFailures == []C5_StartupFailureState /\ Halted
C5_Witness ==
    /\ how = "initfail"
    /\ out = <<ErrorRecord("Engine initialization failed")>>
    /\ exitCode = 1

C6_ExitStep ==
    (ReadsLine /\ IsExitCommand(cmd')) =>
        /\ out' = out
        /\ UNCHANGED engineVars
        /\ pc' = "done"
        /\ exitCode' = 0
\* C6: the step that reads an exit command writes nothing, leaves the engine
\* as it is and ends the process with status 0; no later line is read, as
\* the ended process takes no step.
C6_ExitEndsLoop ==
    /\ [][C6_ExitStep]_vars
    /\ [][how = "exit" => UNCHANGED vars]_vars
    /\ [](how = "exit" => (pc = "done" /\ exitCode = 0 /\ IsExitCommand(cmd)))
C6_Witness ==
    /\ how = "exit"
    /\ nread = 1
    /\ nread < MaxLines
    /\ out = <<ReadyRecord>>
    /\ exitCode = 0

CleanEnd == how \in {"exit", "eof"} /\ ReadyAt = {1}
FailedEnd == how \in {"import", "nostory", "badstory", "initfail", "fatal"}
\* C7: the process has status 0 exactly when it sent the ready signal and
\* left the loop by an exit command or at the end of input, whatever the
\* responses before; it has status 1 exactly when it ended by a startup
\* failure or in the outermost handler; it has no status while it runs.
C7_ExitStatus ==
    /\ exitCode = 0 <=> CleanEnd
    /\ exitCode = 1 <=> FailedEnd
    /\ exitCode = -1 <=> pc # "done"
    /\ exitCode \in {-1, 0, 1}
    /\ how = "fatal" <=> (Len(out) > 0 /\ out[Len(out)] = ErrorRecord("Fatal error"))
C7_Witness ==
    /\ exitCode = 0
    /\ how = "eof"
    /\ Len(out) = 3
    /\ IsError(out[2])
    /\ IsSuccess(out[3])

C8_MissingPassageStep ==
    (ReadsLine /\ cmd'.kind = "object" /\ cmd'.type = "preview"
        /\ cmd'.passage \in {Absent, None, "", "#0", "#false"}) =>
        /\ out' = Append(out, ErrorRecord("Missing passage ID"))
        /\ UNCHANGED engineVars
        /\ pc' = "loop"
\* C8: the step that reads a preview command whose passage is missing, null,
\* empty, 0 or false writes 'Missing passage ID' and leaves the engine as it
\* is: the overlay is not merged and no engine method is called.
C8_MissingPassage == [][C8_MissingPassageStep]_vars
C8_Witness ==
    /\ nread = 1
    /\ cmd.type = "preview"
    /\ cmd.passage = ""
    /\ cmd.state = StateField("map", [a |-> 2])
    /\ state = [a |-> 1, b |-> 1]
    /\ ncalls = 0
    /\ out = <<ReadyRecord, ErrorRecord("Missing passage ID")>>

C9_ChoiceStep ==
    (ReadsLine /\ cmd'.kind = "object" /\ cmd'.type = "choice") =>
        IF cmd'.index \in {Absent, None}
        THEN /\ out' = Append(out, ErrorRecord("Missing choice index"))
             /\ UNCHANGED engineVars
        ELSE /\ ncalls' = ncalls + 1
             /\ lastCall'.op = "choose"
             /\ lastCall'.arg = cmd'.index
             /\ lastCall'.n = nread'
\* C9: the step that reads a choice command whose index is missing or null
\* writes 'Missing choice index' and calls no engine method; with any other
\* index (0 included) it calls engine.choose once, with that index.
C9_ChoiceIndex == [][C9_ChoiceStep]_vars
C9_Witness ==
    /\ nread = 1
    /\ cmd.type = "choice"
    /\ cmd.index = "#0"
    /\ ncalls = 1
    /\ lastCall.op = "choose"
    /\ lastCall.arg = "#0"

OverlayOf(line) == line.state.m
C10_MergeStep ==
    (ReadsLine /\ CallsEngine /\ lastCall'.op = "goto") =>
        LET overlay == OverlayOf(cmd')
            atCall == lastCall'.state
        IN /\ cmd'.type = "preview"
           /\ cmd'.state.kind \in {"absent", "map", "pairs"}
           /\ DOMAIN atCall = DOMAIN state \cup DOMAIN overlay
           /\ \A k \in DOMAIN overlay : atCall[k] = overlay[k]
           /\ \A k \in DOMAIN state \ DOMAIN overlay : atCall[k] = state[k]
\* C10: when a preview command calls engine.goto, the session state at the
\* call has every key of the overlay with the overlay's value and every
\* other key of the state before the command with its old value, and no
\* other key: nothing is deleted.
C10_MergeAtGoto == [][C10_MergeStep]_vars
C10_Witness ==
    /\ nread = 1
    /\ cmd.type = "preview"
    /\ cmd.state = StateField("map", [a |-> 2])
    /\ lastCall.op = "goto"
    /\ lastCall.state = [a |-> 2, b |-> 1]

\* The line is a preview command with a passage that passes `not passage_id`.
IsPreviewWithPassage(line) ==
    /\ line.kind = "object"
    /\ line.type = "preview"
    /\ line.passage \notin {Absent, None, "", "#0", "#false"}

\* Session state s has key k with value v.
Has(s, k, v) == k \in DOMAIN s /\ s[k] = v

\* A preview command that called engine.goto: whatever the call's outcome,
\* the session state after the command is the one the engine left, which
\* has the overlay's value on every key the engine did not assign.
C11_GotoStep ==
    (ReadsLine /\ CallsEngine /\ lastCall'.op = "goto") =>
        /\ state' = lastCall'.left
        /\ ~lastCall'.ok => out' = Append(out, ErrorRecord("Engine error"))
        /\ \A k \in DOMAIN OverlayOf(cmd') :
            Has(lastCall'.left, k, lastCall'.state[k]) => Has(state', k, OverlayOf(cmd')[k])
\* Any other step: a value of the session state reaches the next engine call
\* (or the end of the step) unless the command's own overlay sets the key.
C11_LaterStep ==
    (~(CallsEngine /\ lastCall'.op = "goto") /\ engines' = engines) =>
        IF CallsEngine
        THEN lastCall'.state = state /\ state' = lastCall'.left
        ELSE \A k \in DOMAIN state :
                (ReadsLine /\ k \in DOMAIN OverlayOf(cmd')) \/ Has(state', k, state[k])
\* C11: a merged overlay persists: the dispatcher never takes it back, not
\* even when the engine.goto of the command that carried it raises (the
\* command answers 'Engine error' and the overlay stays applied), and it is
\* there for the commands that follow.
C11_OverlayPersists == [][C11_GotoStep /\ C11_LaterStep]_vars
C11_Witness ==
    /\ nread = 2
    /\ Len(out) = 3
    /\ out[2] = ErrorRecord("Engine error")
    /\ lastCall.n = 2
    /\ lastCall.op = "current"
    /\ Has(lastCall.state, "a", 2)
    /\ Has(state, "a", 2)

\* Two preview commands in a row that both reach engine.goto: at the second
\* call a key of the second overlay has that overlay's value, and a key only
\* the first overlay mentioned still has the first overlay's value, unless
\* the engine assigned it in between.
C12_SecondPreviewStep ==
    (ReadsLine /\ CallsEngine /\ lastCall'.op = "goto"
        /\ lastCall.op = "goto" /\ lastCall.n = nread) =>
        \A k \in Keys :
            LET new == OverlayOf(cmd')
                old == OverlayOf(cmd)
            IN IF k \in DOMAIN new
               THEN Has(lastCall'.state, k, new[k])
               ELSE (k \in DOMAIN old /\ Has(lastCall.left, k, old[k]))
                        => Has(lastCall'.state, k, old[k])
\* C12: overlays on different keys do not interfere: as far as the
\* dispatcher's writes go, a key has the value of the most recent overlay
\* that mentioned it (overlay {a} then overlay {b} leaves a as the first
\* overlay set it).
C12_OverlaysDoNotInterfere == [][C12_SecondPreviewStep]_vars
C12_Witness ==
    /\ nread = 2
    /\ cmd.type = "preview"
    /\ cmd.state = StateField("map", [b |-> 2])
    /\ lastCall.n = 2
    /\ lastCall.op = "goto"
    /\ lastCall.state = [a |-> 2, b |-> 2]

\* The last line written.
LastOut == out[Len(out)]

\* A step in which an engine method returned writes one record made of the
\* returned Output; a success record is written by no other step.
C13_SuccessStep ==
    /\ (CallsEngine /\ lastCall'.ok) =>
        LET rec == out'[Len(out')]
            output == lastCall'.output
        IN /\ out' = Append(out, rec)
           /\ lastCall'.op \in {"goto", "choose", "current"}
           /\ DOMAIN rec = {"content", "choices", "passage_id", "has_choices"}
           /\ rec.content = output.content
           /\ rec.choices = output.choices
           /\ rec.passage_id = output.passage_id
           /\ rec.has_choices = (Len(output.choices) > 0)
    /\ (Len(out') > Len(out) /\ IsSuccess(out'[Len(out')])) => (CallsEngine /\ lastCall'.ok)
\* C13: every success response has has_choices = (length of choices > 0),
\* and its content, choices (same elements, same order) and passage_id are
\* those of the Output the engine returned, for preview, choice and current.
C13_SuccessResponse ==
    /\ [][C13_SuccessStep]_vars
    /\ [](\A k \in 1..Len(out) :
            IsSuccess(out[k]) => (out[k].has_choices = (Len(out[k].choices) > 0)))
C13_Witness ==
    /\ nread = 2
    /\ Len(out) = 3
    /\ IsSuccess(out[2])
    /\ out[2].choices = << >>
    /\ ~out[2].has_choices
    /\ lastCall.op = "choose"
    /\ lastCall.n = 2
    /\ lastCall.output.choices = <<"x", "y">>
    /\ out[3].choices = <<"x", "y">>
    /\ out[3].has_choices

\* The type of a line that decoded as JSON: the "type" member of an object,
\* None when the object has none, and None for a value that is no object.
TypeOf(line) == IF line.type = Absent THEN None ELSE line.type
CommandTypes == {"preview", "choice", "current", "exit"}
UnknownTypeAnswer ==
    /\ out' = Append(out, [error |-> "Unknown command type", type |-> TypeOf(cmd')])
    /\ UNCHANGED engineVars
    /\ pc' = "loop"
    /\ exitCode' = -1
C15_ObjectStep ==
    (ReadsLine /\ cmd'.kind = "object" /\ TypeOf(cmd') \notin CommandTypes)
        => UnknownTypeAnswer
\* C15 as stated: every line that decodes as JSON and has no type among
\* preview, choice, current, exit (a missing type included) is answered
\* 'Unknown command type' with the type, without touching the engine.
C15_AsStated ==
    [][(ReadsLine /\ cmd'.kind \in {"object", "nonobject"}
            /\ TypeOf(cmd') \notin CommandTypes) => UnknownTypeAnswer]_vars
\* C15, amended: every line that decodes as a JSON object and has no type
\* among preview, choice, current, exit (a missing type included) is
\* answered 'Unknown command type' with the type (null when missing),
\* without an engine call or a change of session state, and the loop goes on.
C15_UnknownTypeOfObject ==
    /\ [][C15_ObjectStep]_vars
    /\ []((cmd.kind = "object" /\ TypeOf(cmd) \notin CommandTypes /\ MoreInput)
            => Listening)
C15_Witness ==
    /\ nread = 2
    /\ cmd.type = Absent
    /\ cmd.state = StateField("map", [a |-> 2])
    /\ state = EmptyMapping
    /\ ncalls = 0
    /\ out = <<ReadyRecord, [error |-> "Unknown command type", type |-> "foo"],
               [error |-> "Unknown command type", type |-> None]>>

\* A failure of the loop body that no handler of the protocol's records
\* takes: the line is no object, or engine.state.update raises.
LoopBodyFailure(line) ==
    \/ line.kind = "nonobject"
    \/ IsPreviewWithPassage(line) /\ line.state.kind \in {"null", "partial"}
\* The process ends in the outermost handler.
FatalEnd ==
    /\ out' = Append(out, ErrorRecord("Fatal error"))
    /\ pc' = "done"
    /\ exitCode' = 1
C16_OuterStep == (how = "running" /\ how' = "fatal") => (FatalEnd /\ ~ReadsLine)
C16_LoopBodyStep ==
    (ReadsLine /\ LoopBodyFailure(cmd')) =>
        /\ out' = Append(out, ErrorRecord("Unexpected error"))
        /\ pc' = "loop"
        /\ exitCode' = -1
\* C16 as stated: a failure in the loop body that is not converted to one of
\* the protocol's error records ends the process in the outermost handler,
\* with a 'Fatal error' record and a non-zero status.
C16_AsStated == [][(ReadsLine /\ LoopBodyFailure(cmd')) => FatalEnd]_vars
\* C16, amended: an exception in startup or in reading the next line that
\* is not converted to an error record is caught by the outermost handler,
\* reported as 'Fatal error' as the last line, and the process exits with
\* status 1; an exception while a line that was read is handled is caught
\* by the loop body's handler, reported as 'Unexpected error', and the loop
\* goes on.
C16_FatalAndUnexpected ==
    /\ [][C16_OuterStep /\ C16_LoopBodyStep]_vars
    /\ [](\A k \in 1..Len(out) :
            out[k] = ErrorRecord("Fatal error") =>
                (k = Len(out) /\ pc = "done" /\ exitCode = 1 /\ how = "fatal"))
    /\ [](how = "fatal" => (Len(out) > 0 /\ LastOut = ErrorRecord("Fatal error")))
C16_Witness ==
    /\ how = "fatal"
    /\ exitCode = 1
    /\ nread = 1
    /\ cmd.kind = "nonobject"
    /\ out = <<ReadyRecord, ErrorRecord("Unexpected error"), ErrorRecord("Fatal error")>>

\* The records after which the process exits.
FatalRecords ==
    {[error |-> e] : e \in {"Bardic not installed", "No story data provided",
                            "Invalid story JSON", "Engine initialization failed",
                            "Fatal error"}}
C17_DispatchStep ==
    (ReadsLine /\ ~IsExitCommand(cmd')) =>
        /\ Len(out') = Len(out) + 1
        /\ out'[Len(out')] \notin FatalRecords
        /\ pc' = "loop"
        /\ exitCode' = -1
\* C17: a record of a fatal kind (a startup failure or 'Fatal error') is the
\* last line written and the process has ended with a non-zero status; a
\* record written while a command is dispatched is of no fatal kind and
\* leaves the process in the loop, where the next line is answered.
C17_FatalOrRecoverable ==
    /\ [][C17_DispatchStep]_vars
    /\ [](\A k \in 1..Len(out) :
            out[k] \in FatalRecords => (k = Len(out) /\ pc = "done" /\ exitCode = 1))
    /\ []((nread > 0 /\ IsError(LastOut) /\ MoreInput) => Listening)
C17_Witness ==
    /\ nread = 2
    /\ pc = "loop"
    /\ Len(out) = 3
    /\ out[2] = ErrorRecord("Unexpected error")
    /\ out[3] = ErrorRecord("Missing choice index")

\* The line makes engine.state.update raise: a null state, or a sequence
\* with an element that is no pair.
UpdateRaises(line) == IsPreviewWithPassage(line) /\ line.state.kind \in {"null", "partial"}
UnexpectedAnswer ==
    /\ out' = Append(out, ErrorRecord("Unexpected error"))
    /\ ~CallsEngine
    /\ lastCall' = lastCall
    /\ pc' = "loop"
    /\ exitCode' = -1
C18_RaisingStep ==
    (ReadsLine /\ (cmd'.kind = "nonobject" \/ UpdateRaises(cmd'))) => UnexpectedAnswer
C18_PairsStep ==
    (ReadsLine /\ IsPreviewWithPassage(cmd') /\ cmd'.state.kind = "pairs") =>
        /\ CallsEngine
        /\ lastCall'.op = "goto"
        /\ \A k \in DOMAIN OverlayOf(cmd') : Has(lastCall'.state, k, OverlayOf(cmd')[k])
        /\ out'[Len(out')] # ErrorRecord("Unexpected error")
\* C18 as stated: a line that is JSON but no object, or a preview command
\* (with a passage) whose state is not a mapping, is answered 'Unexpected
\* error' without a call of engine.goto, and the loop goes on.
C18_AsStated ==
    [][(ReadsLine /\ (cmd'.kind = "nonobject"
            \/ (IsPreviewWithPassage(cmd') /\ cmd'.state.kind \notin {"absent", "map"})))
        => UnexpectedAnswer]_vars
\* C18, amended: a line that is JSON but no object, or a preview command
\* with a passage whose state makes engine.state.update raise (null, or a
\* sequence with an element that is no key/value pair), is answered with
\* one 'Unexpected error' record, without a call of engine.goto, and the
\* loop goes on; a state that is a sequence of key/value pairs is merged
\* like a mapping and engine.goto is called.
C18_UnexpectedError ==
    /\ [][C18_RaisingStep /\ C18_PairsStep]_vars
    /\ []((nread > 0 /\ LastOut = ErrorRecord("Unexpected error") /\ MoreInput)
            => Listening)
C18_Witness ==
    /\ nread = 2
    /\ ncalls = 0
    /\ cmd.kind = "nonobject"
    /\ Has(state, "a", 2)
    /\ out = <<ReadyRecord, ErrorRecord("Unexpected error"), ErrorRecord("Unexpected error")>>

C19_OtherCommandStep ==
    (ReadsLine /\ ~IsPreviewWithPassage(cmd')) =>
        IF CallsEngine
        THEN /\ lastCall'.op \in {"choose", "current"}
             /\ lastCall'.state = state
             /\ state' = lastCall'.left
        ELSE state' = state
\* C19: only a preview command with a passage merges into the session
\* state: for every other line (choice, current, exit, unknown type, no
\* JSON, no object), whatever state member it carries, the engine is called
\* with the session state as it was, or the state is left as it was; and
\* the engine built at startup is the only one ever built.
C19_OnlyPreviewMerges ==
    /\ [][C19_OtherCommandStep]_vars
    /\ [][pc = "loop" => engines' = engines]_vars
    /\ [](pc = "loop" => engines = 1)
C19_Witness ==
    /\ nread = 2
    /\ cmd.type = "current"
    /\ cmd.state = StateField("map", [a |-> 2])
    /\ lastCall.op = "current"
    /\ lastCall.n = 2
    /\ lastCall.state = [a |-> 1, b |-> 1]
    /\ state = [a |-> 1, b |-> 1]
    /\ engines = 1

====
